---- MODULE Spec2Model ----
(***************************************************************************)
(* Model of packagetrack/carriers/amzl_interface.py (AMZLInterface).       *)
(*                                                                         *)
(* One caller invokes one public operation (identify, url, track,          *)
(* is_delivered); the model follows the call through the code, statement   *)
(* group by statement group, until it returns or raises.                   *)
(*                                                                         *)
(* Strings the regex and split look into are sequences of one-character    *)
(* strings.  Page texts are sequences of tokens (a word, a time, a date,   *)
(* or the whitespace token " ").  An optional value (None or a value) is   *)
(* the empty sequence or a one-element sequence.                           *)
(*                                                                         *)
(* The module is read with Python 2 semantics (response.content is a str,  *)
(* so the "in" test of line 78 is a substring test).                       *)
(***************************************************************************)
EXTENDS Integers, Sequences, FiniteSets, TLC

VARIABLES
    pc,               \* position of the call
    op,               \* public operation invoked
    tracking_number,  \* its tracking_number argument
    given_info,       \* the tracking_info argument as the caller passed it
    tracking_info,    \* is_delivered's variable tracking_info (<<>> = None)
    parsed,           \* the dict of _parse_tracking_number (<<>> before)
    response,         \* what requests.get produced (<<>> before)
    data,             \* tracking_data of _parse_tracking_response (<<>> before)
    info,             \* the TrackingInfo built by track (<<>> before)
    result,           \* how the public operation ended
    returned,         \* the value it returned (<<>> if none)
    calls             \* how often each callee/statement ran in this call

vars == <<pc, op, tracking_number, given_info, tracking_info, parsed, response, data,
          info, result, returned, calls>>

----------------------------------------------------------------------------
(* Bounds of the inputs *)

MaxPrefix == 1       \* characters put in front of an order id
MaxSuffix == 2       \* characters put behind an order id
MaxContainers == 2   \* event containers on a page of the pages of all shapes
MaxRows == 1         \* sub-rows in an event container of the pages of all shapes

----------------------------------------------------------------------------
(* Generic helpers *)

None == << >>
Some(v) == << v >>

RECURSIVE Rep(_, _)
Rep(c, n) == IF n = 0 THEN << >> ELSE <<c>> \o Rep(c, n - 1)

RECURSIVE SeqsUpTo(_, _)
SeqsUpTo(S, n) ==
    IF n = 0 THEN { << >> }
    ELSE LET shorter == SeqsUpTo(S, n - 1)
         IN  shorter \cup { Append(s, c) : s \in shorter, c \in S }

RECURSIVE Concat(_)
Concat(ss) == IF ss = << >> THEN << >> ELSE Head(ss) \o Concat(Tail(ss))

----------------------------------------------------------------------------
(* Characters and the regular expression of identify *)

Digits == {"0", "1", "2", "3", "4", "5", "6", "7", "8", "9"}
Letters == {"a", "A", "B", "C"}

\* class "d" is \d, class "w" is \w; any other class is that literal character
InClass(cls, c) ==
    CASE cls = "d" -> c \in Digits
      [] cls = "w" -> c \in Digits \cup Letters \cup {"_"}
      [] OTHER     -> c = cls

\* An atom is n characters of class cls, or n and more.  A pattern is a
\* sequence of groups of atoms, each group optional or not.

\* the pattern with its second run of digits one digit short
TN_REGEX_short ==
    << [optional |-> FALSE,
        atoms |-> << [cls |-> "d", n |-> 3, more |-> FALSE],
                     [cls |-> "-", n |-> 1, more |-> FALSE],
                     [cls |-> "d", n |-> 6, more |-> FALSE],
                     [cls |-> "-", n |-> 1, more |-> FALSE],
                     [cls |-> "d", n |-> 7, more |-> FALSE] >>],
       [optional |-> TRUE,
        atoms |-> << [cls |-> ":", n |-> 1, more |-> FALSE],
                     [cls |-> "w", n |-> 1, more |-> TRUE] >>] >>

\* r'\d{3}-\d{7}-\d{7}(?::\w+)?'
TN_REGEX ==
    << [optional |-> FALSE,
        atoms |-> << [cls |-> "d", n |-> 3, more |-> FALSE],
                     [cls |-> "-", n |-> 1, more |-> FALSE],
                     [cls |-> "d", n |-> 7, more |-> FALSE],
                     [cls |-> "-", n |-> 1, more |-> FALSE],
                     [cls |-> "d", n |-> 7, more |-> FALSE] >>],
       [optional |-> TRUE,
        atoms |-> << [cls |-> ":", n |-> 1, more |-> FALSE],
                     [cls |-> "w", n |-> 1, more |-> TRUE] >>] >>

\* positions (number of characters consumed) where atom can end when it
\* starts at position i of s
AtomEnds(atom, s, i) ==
    LET most == IF atom.more THEN Len(s) - i ELSE atom.n
    IN  { i + k : k \in { n \in atom.n..most :
                            /\ i + n <= Len(s)
                            /\ \A j \in (i + 1)..(i + n) : InClass(atom.cls, s[j]) } }

RECURSIVE AtomsEnds(_, _, _, _)
AtomsEnds(atoms, k, s, P) ==
    IF k > Len(atoms) THEN P
    ELSE AtomsEnds(atoms, k + 1, s, UNION { AtomEnds(atoms[k], s, i) : i \in P })

RECURSIVE PatternEnds(_, _, _, _)
PatternEnds(pattern, k, s, P) ==
    IF k > Len(pattern) THEN P
    ELSE LET g == pattern[k]
             through == AtomsEnds(g.atoms, 1, s, P)
         IN  PatternEnds(pattern, k + 1, s,
                         through \cup (IF g.optional THEN P ELSE {}))

\* re.match: a match starting at the first character, ending anywhere
re_match(pattern, s) == PatternEnds(pattern, 1, s, {0}) # {}

identify_value(tn) == re_match(TN_REGEX, tn)

----------------------------------------------------------------------------
(* Tracking numbers *)

OrderId == Rep("1", 3) \o <<"-">> \o Rep("2", 7) \o <<"-">> \o Rep("3", 7)

TNAlphabet == {"1", "a", "_", "-", ":", " "}

\* the characters put in front of and behind an order id
AffixAlphabet == {"1", "a", ":", " "}

\* s with its i-th character replaced by c
Replace(s, i, c) == [s EXCEPT ![i] = c]

\* order ids with at most one character replaced, and all proper prefixes
NearOrderIds ==
    {OrderId}
      \cup { Replace(OrderId, i, c) : i \in 1..Len(OrderId), c \in TNAlphabet }
      \cup { SubSeq(OrderId, 1, n) : n \in 0..(Len(OrderId) - 1) }

IdentifyInputs ==
    { pre \o mid \o suf : pre \in SeqsUpTo(AffixAlphabet, MaxPrefix),
                          mid \in NearOrderIds,
                          suf \in SeqsUpTo(AffixAlphabet, MaxSuffix) }

\* the tracking numbers handed to url
TrackingNumbers ==
    { OrderId,
      OrderId \o <<":", "A", "B", "C">>,
      OrderId \o <<":", "A", "B", "C", ":", "5">>,
      <<"a", "B", "C">>,
      <<"1", "2", ":", ":", "5", ":", "7", ":", "9">>,
      << >> }

\* the tracking numbers handed to track and is_delivered
TrackedNumbers ==
    { OrderId \o <<":", "A", "B", "C", ":", "5">>,
      <<"1", "2", ":", ":", "5", ":", "7", ":", "9">> }

\* str.split(':')
RECURSIVE Split(_, _)
Split(s, cur) ==
    IF s = << >> THEN << cur >>
    ELSE IF Head(s) = ":" THEN << cur >> \o Split(Tail(s), << >>)
    ELSE Split(Tail(s), Append(cur, Head(s)))

StrVal(s) == [t |-> "str", s |-> s]
IntZero == [t |-> "int", s |-> <<"0">>]

\* dict(zip(_url_template_keys, list(parts) + [0, 0, 0]))
_parse_tracking_number(tn) ==
    LET parts == Split(tn, << >>)
        padded == [i \in 1..Len(parts) |-> StrVal(parts[i])]
                    \o <<IntZero, IntZero, IntZero>>
    IN  [order_id |-> padded[1], item_id |-> padded[2], package_idx |-> padded[3]]

\* _url_template.format(...): str() of each value put into the template
url_format(q) ==
    <<"https://www.amazon.com/progress-tracker/package/?itemId=">> \o q.item_id.s
      \o <<"&orderId=">> \o q.order_id.s
      \o <<"&packageIndex=">> \o q.package_idx.s

----------------------------------------------------------------------------
(* Page texts and _find *)

WS == " "

\* str.strip(): leading and trailing whitespace removed
RECURSIVE LStrip(_)
LStrip(t) == IF t # << >> /\ Head(t) = WS THEN LStrip(Tail(t)) ELSE t

RECURSIVE RStrip(_)
RStrip(t) ==
    IF t # << >> /\ t[Len(t)] = WS THEN RStrip(SubSeq(t, 1, Len(t) - 1)) ELSE t

Strip(t) == RStrip(LStrip(t))

\* str.split(): the whitespace-separated words
Words(t) == SelectSeq(t, LAMBDA w : w # WS)

\* u' '.join([a, b])
Join(a, b) == a \o <<WS>> \o b

\* _find(tag, ...): tag is the element found (None when there is none);
\* .text of None raises AttributeError, which yields ''
_find(tag) == IF tag = None THEN << >> ELSE Strip(tag[1])

----------------------------------------------------------------------------
(* _parse_timestamp *)

Years == {2024, 2025}

YearText(y) == ToString(y)

\* what '%I:%M %p' reads from a time fragment
TimeFields ==
    [t \in {"3:15 PM", "12:05 AM", "12:30 PM", "9:40 AM"} |->
        CASE t = "3:15 PM"  -> [hour12 |-> 3,  minute |-> 15, pm |-> TRUE]
          [] t = "12:05 AM" -> [hour12 |-> 12, minute |-> 5,  pm |-> FALSE]
          [] t = "12:30 PM" -> [hour12 |-> 12, minute |-> 30, pm |-> TRUE]
          [] t = "9:40 AM"  -> [hour12 |-> 9,  minute |-> 40, pm |-> FALSE]]

\* what '%A, %B %d' reads from a date fragment
DateFields ==
    [t \in {"Monday, June 10", "Tuesday, June 11", "Thursday, February 29",
            "Monday, June 31"} |->
        CASE t = "Monday, June 10"       -> [month |-> 6, day |-> 10]
          [] t = "Tuesday, June 11"      -> [month |-> 6, day |-> 11]
          [] t = "Thursday, February 29" -> [month |-> 2, day |-> 29]
          [] t = "Monday, June 31"       -> [month |-> 6, day |-> 31]]

YearFields == [t \in {YearText(y) : y \in Years} |->
                  CHOOSE y \in Years : YearText(y) = t]

IsLeap(y) == y % 4 = 0 /\ (y % 100 # 0 \/ y % 400 = 0)

DaysIn(month, y) ==
    IF month = 2 THEN (IF IsLeap(y) THEN 29 ELSE 28)
    ELSE IF month \in {4, 6, 9, 11} THEN 30 ELSE 31

\* whitespace in a format matches one or more whitespace characters and
\* nothing else does; the whole text must be consumed
WellSpaced(text) ==
    /\ text # << >>
    /\ Head(text) # WS
    /\ text[Len(text)] # WS
    /\ \A i \in 1..(Len(text) - 1) : text[i] = WS \/ text[i + 1] = WS

\* hour of the day from %I and %p
Hour24(hour12, pm) == (hour12 % 12) + (IF pm THEN 12 ELSE 0)

\* datetime.datetime.strptime(text, '%I:%M %p %A, %B %d %Y'); None = ValueError
strptime_time_date(text) ==
    LET w == Words(text)
    IN  IF /\ WellSpaced(text)
           /\ Len(w) = 3
           /\ w[1] \in DOMAIN TimeFields
           /\ w[2] \in DOMAIN DateFields
           /\ w[3] \in DOMAIN YearFields
           /\ DateFields[w[2]].day <= DaysIn(DateFields[w[2]].month, YearFields[w[3]])
        THEN Some([year |-> YearFields[w[3]],
                   month |-> DateFields[w[2]].month,
                   day |-> DateFields[w[2]].day,
                   hour |-> Hour24(TimeFields[w[1]].hour12, TimeFields[w[1]].pm),
                   minute |-> TimeFields[w[1]].minute])
        ELSE None

\* datetime.datetime.strptime(text, '%A, %B %d %Y'); None = ValueError
strptime_date(text) ==
    LET w == Words(text)
    IN  IF /\ WellSpaced(text)
           /\ Len(w) = 2
           /\ w[1] \in DOMAIN DateFields
           /\ w[2] \in DOMAIN YearFields
           /\ DateFields[w[1]].day <= DaysIn(DateFields[w[1]].month, YearFields[w[2]])
        THEN Some([year |-> YearFields[w[2]],
                   month |-> DateFields[w[1]].month,
                   day |-> DateFields[w[1]].day,
                   hour |-> 0,
                   minute |-> 0])
        ELSE None

\* _parse_timestamp(timestamp, year); None = the TypeError that
\* datetime.datetime() without arguments raises in the innermost handler
_parse_timestamp(timestamp, year) ==
    LET text == timestamp \o <<WS>> \o <<YearText(year)>>
        first == strptime_time_date(text)
    IN  IF first # None THEN first ELSE strptime_date(text)

----------------------------------------------------------------------------
(* str.lower and the delivered test *)

UpperCase == <<"A", "B", "C", "D", "E", "F", "G", "H", "I", "J", "K", "L", "M",
               "N", "O", "P", "Q", "R", "S", "T", "U", "V", "W", "X", "Y", "Z">>
LowerCase == <<"a", "b", "c", "d", "e", "f", "g", "h", "i", "j", "k", "l", "m",
               "n", "o", "p", "q", "r", "s", "t", "u", "v", "w", "x", "y", "z">>

LowerChar(c) ==
    IF \E i \in 1..Len(UpperCase) : UpperCase[i] = c
    THEN LowerCase[CHOOSE i \in 1..Len(UpperCase) : UpperCase[i] = c]
    ELSE c

\* str.lower()
Lower(s) == [i \in 1..Len(s) |-> LowerChar(s[i])]

delivered == <<"d", "e", "l", "i", "v", "e", "r", "e", "d">>

\* the comparison without .lower()
status_is_delivered_exact(status) == status = delivered

\* tracking_info.status.lower() == 'delivered'
status_is_delivered(status) == Lower(status) = delivered

\* tracking_info is None or not
needs_track_always(ti) == TRUE

\* line 38: tracking_info is None
needs_track(ti) == ti = None

----------------------------------------------------------------------------
(* The page *)

_IGNORE_TAG_CLASSES ==
    {"tracking-event-carrier-header", "tracking-event-trackingId-text",
     "tracking-event-timezoneLabel"}

\* all(attr not in tag.attrs['class'] for attr in self._IGNORE_TAG_CLASSES)
NotIgnored(tag) == \A attr \in _IGNORE_TAG_CLASSES : attr \notin tag.class

\* the sub-rows the comprehension of lines 105-117 visits, in its order,
\* each with the date tag of its container
RowsOf(container_tag) ==
    IF NotIgnored(container_tag)
    THEN LET kept == SelectSeq(container_tag.rows, NotIgnored)
         IN  [i \in 1..Len(kept) |-> [date |-> container_tag.date, tag |-> kept[i]]]
    ELSE << >>

VisitedRows(soup) ==
    Concat([i \in 1..Len(soup.containers) |-> RowsOf(soup.containers[i])])

\* the text handed to _parse_timestamp for a visited row (lines 107-109)
TimestampText(r) == Strip(Join(_find(r.tag.time), _find(r.date)))

\* the events list, when every timestamp parses
EventsOf(rows, year) ==
    [i \in 1..Len(rows) |->
        [timestamp |-> _parse_timestamp(TimestampText(rows[i]), year)[1],
         message |-> _find(rows[i].tag.message),
         location |-> _find(rows[i].tag.location)]]

\* index of the first visited row whose timestamp does not parse, 0 if none
FirstUnparsed(rows, year) ==
    LET bad == { i \in 1..Len(rows) :
                   _parse_timestamp(TimestampText(rows[i]), year) = None }
    IN  IF bad = {} THEN 0 ELSE CHOOSE i \in bad : \A j \in bad : i <= j

\* _parse_tracking_response(soup): the exception it ends with ("" if none),
\* the tracking_data it returns, the number of _parse_timestamp calls made
_parse_tracking_response(soup, year) ==
    LET id_words == Words(_find(soup.id))
        rows == VisitedRows(soup)
        bad == FirstUnparsed(rows, year)
    IN  IF id_words = << >>
        THEN [exc |-> "IndexError", data |-> None, timestamps |-> 0]
        ELSE IF bad # 0
        THEN [exc |-> "TypeError", data |-> None, timestamps |-> bad]
        ELSE [exc |-> "",
              data |-> Some([id |-> <<id_words[Len(id_words)]>>,
                             primary_status |-> _find(soup.primary_status),
                             secondary_status |-> _find(soup.secondary_status),
                             milestone_message |-> _find(soup.milestone_message),
                             exception_source |-> _find(soup.exception_source),
                             exception_message |-> _find(soup.exception_message),
                             events |-> EventsOf(rows, year)]),
              timestamps |-> Len(rows)]

----------------------------------------------------------------------------
(* Pages the carrier can answer with *)

Tag(text) == Some(text)

GoodId == Tag(<<"Tracking", WS, "ID:", WS, "TBA0001">>)
IdTags == {None, Tag(<<WS>>), GoodId}
PrimaryTags == {None, Tag(<<WS, "Delivered", WS>>), Tag(<<"In", WS, "transit">>)}
OptionalTag(text) == {None, Tag(text)}

IgnoredClasses ==
    <<"tracking-event-carrier-header", "tracking-event-trackingId-text",
      "tracking-event-timezoneLabel">>

\* the classes of container i: those of an event container, or of one of
\* the decorative containers
ContainerClass(i, decorative) ==
    IF decorative THEN {"a-row", IgnoredClasses[((i - 1) % 3) + 1]}
    ELSE {"a-row", "a-spacing-top-medium"}

\* the classes of sub-row j, likewise
RowClass(j, decorative) ==
    IF decorative THEN {"a-spacing-large", IgnoredClasses[((j + 1) % 3) + 1]}
    ELSE {"a-spacing-large"}

DateAt(i) == IF i % 2 = 1 THEN Tag(<<"Monday, June 10">>)
                          ELSE Tag(<<"Tuesday, June 11">>)
TimeAt(j) == Tag(<< <<"3:15 PM", "12:05 AM", "12:30 PM", "9:40 AM">>[((j - 1) % 4) + 1] >>)

\* container i of a page; decorative and rows say which of the container
\* and its sub-rows carry an ignored class
Container(i, decorative, rows) ==
    [class |-> ContainerClass(i, decorative),
     date |-> DateAt(i),
     rows |-> [j \in 1..Len(rows) |->
                 [class |-> RowClass(j, rows[j]),
                  time |-> TimeAt(j),
                  message |-> Tag(<<"container", WS, ToString(i), WS, "row", WS, ToString(j)>>),
                  location |-> Tag(<<"Detroit">>)]]]

ContainerShapes ==
    [decorative : BOOLEAN, rows : SeqsUpTo(BOOLEAN, MaxRows)]

Page(marker, id, primary, secondary, milestone, source, message, containers) ==
    [marker |-> marker, id |-> id, primary_status |-> primary,
     secondary_status |-> secondary, milestone_message |-> milestone,
     exception_source |-> source, exception_message |-> message,
     containers |-> containers]

TwoRows ==
    << Container(1, FALSE, <<FALSE, FALSE>>) >>

\* pages that differ in their event containers, rows and classes
StructurePages ==
    { Page(TRUE, GoodId, Tag(<<"Delivered">>), None, None, None, None,
           [i \in 1..Len(shape) |-> Container(i, shape[i].decorative, shape[i].rows)]) :
        shape \in SeqsUpTo(ContainerShapes, MaxContainers) }

DateTags == {None, Tag(<<"Monday, June 10">>), Tag(<<WS, "Tuesday, June 11", WS>>),
             Tag(<<"Thursday, February 29">>), Tag(<<"Monday, June 31">>),
             Tag(<<"Today">>)}
TimeTags == {None, Tag(<<"3:15 PM">>), Tag(<<WS, "12:05 AM">>), Tag(<<"soon">>)}

TimestampRows ==
    [class : {{"a-spacing-large"}}, time : TimeTags,
     message : {Tag(<<"Delivered">>)}, location : {Tag(<<"Detroit", WS, "MI">>)}]

\* pages that differ in the time and date of their rows
TimestampPages ==
    { Page(TRUE, GoodId, Tag(<<"Delivered">>), None, None, None, None,
           << [class |-> {"a-row"}, date |-> date, rows |-> rows] >>) :
        date \in DateTags, rows \in SeqsUpTo(TimestampRows, MaxRows) \ {<< >>} }

\* pages of one row that differ in whether it has a message and a location
EventFieldPages ==
    { Page(TRUE, GoodId, Tag(<<"In", WS, "transit">>), None, None, None, None,
           << [class |-> {"a-row"}, date |-> DateAt(1),
               rows |-> << [class |-> {"a-spacing-large"}, time |-> TimeAt(1),
                            message |-> message, location |-> location] >>] >>) :
        message \in OptionalTag(<<"Out", WS, "for", WS, "delivery">>),
        location \in OptionalTag(<<"Detroit", WS, "MI">>) }

\* pages that differ in which scalar fields they have
ScalarPages ==
    { Page(TRUE, id, primary, secondary, milestone, source, message, containers) :
        id \in IdTags, primary \in PrimaryTags,
        secondary \in OptionalTag(<<"Arriving", WS, "today">>),
        milestone \in OptionalTag(<<"On", WS, "the", WS, "way">>),
        source \in OptionalTag(<<"Carrier">>),
        message \in OptionalTag(<<"Delayed">>),
        containers \in {<< >>, TwoRows} }

\* bodies without the marker text; a tag of that class would contain it
UnmarkedPages ==
    { Page(FALSE, None, primary, None, None, None, None, containers) :
        primary \in {None, Tag(<<"Delivered">>)}, containers \in {<< >>, TwoRows} }

GoodPage ==
    Page(TRUE, GoodId, Tag(<<"Delivered">>), None, None, None, None, TwoRows)

\* a decorative container and an event container, two rows each
FixturePage ==
    Page(TRUE, GoodId, Tag(<<"Delivered">>), None, None, None, None,
         << Container(1, TRUE, <<FALSE, FALSE>>), Container(2, FALSE, <<FALSE, FALSE>>) >>)

Pages ==
    StructurePages \cup TimestampPages \cup EventFieldPages \cup ScalarPages
      \cup UnmarkedPages \cup {FixturePage}

\* what requests.get does: raises, or returns a response
TransportFailures ==
    [raised : {"ConnectionError", "Timeout"}, status_code : {0},
     body : {Page(FALSE, None, None, None, None, None, None, << >>)}]

Responses ==
    TransportFailures
      \cup [raised : {""}, status_code : {200}, body : Pages]
      \cup [raised : {""}, status_code : {204, 404, 503},
            body : UnmarkedPages \cup {GoodPage}]

\* response.ok as always true
ok_always(resp) == TRUE

\* response.ok: the status is not a client or server error
ok(resp) == resp.status_code < 400

\* the marker test as always passing
has_marker_always(resp) == TRUE

\* line 78: 'carrierRelatedInfo-trackingId-text' in response.content
has_marker(resp) == resp.body.marker

----------------------------------------------------------------------------
(* TrackingInfo, the record of the shared data module *)

\* TrackingInfo(tracking_number)
TrackingInfo(tn) ==
    [tracking_number |-> tn, events |-> << >>, status |-> None,
     is_delivered |-> None, delivery_date |-> None, last_update |-> None]

\* info.create_event(location=..., timestamp=..., detail=...)
create_event(ti, location, timestamp, detail) ==
    [ti EXCEPT !.events = Append(@, [location |-> location,
                                     timestamp |-> timestamp,
                                     detail |-> detail]),
               !.last_update = Some(timestamp)]

\* what reading info.status can give: nothing, or a text.  This file never
\* assigns the attribute.
StatusValues ==
    { None,
      Some(<<"d", "e", "l", "i", "v", "e", "r", "e", "d">>),
      Some(<<"D", "E", "L", "I", "V", "E", "R", "E", "D">>),
      Some(<<"D", "e", "l", "i", "v", "e", "r", "e", "d", " ">>),
      Some(<<"O", "u", "t">>) }

GivenInfos == { [TrackingInfo(<< >>) EXCEPT !.status = s] : s \in StatusValues }

----------------------------------------------------------------------------
(* The call *)

NoCalls ==
    [track |-> 0, parse_tracking_number |-> 0, url_format |-> 0, get |-> 0,
     parse_tracking_response |-> 0, parse_timestamp |-> 0, create_event |-> 0,
     delivery_date_set |-> 0]

NoResult == [kind |-> "none", exc |-> "", arg |-> << >>]
Return == [kind |-> "return", exc |-> "", arg |-> << >>]
Raise(exc, arg) == [kind |-> "raise", exc |-> exc, arg |-> arg]

Init ==
    /\ pc = "idle"
    /\ op = ""
    /\ tracking_number = << >>
    /\ given_info = None
    /\ tracking_info = None
    /\ parsed = None
    /\ response = None
    /\ data = None
    /\ info = None
    /\ result = NoResult
    /\ returned = None
    /\ calls = NoCalls

\* identify(tracking_number)
identify ==
    /\ pc = "idle"
    /\ \E tn \in IdentifyInputs \cup TrackingNumbers :
         /\ tracking_number' = tn
         /\ returned' = Some(identify_value(tn))
    /\ op' = "identify"
    /\ result' = Return
    /\ pc' = "done"
    /\ UNCHANGED <<given_info, tracking_info, parsed, response, data, info, calls>>

\* url(tracking_number)
url ==
    /\ pc = "idle"
    /\ \E tn \in TrackingNumbers :
         /\ tracking_number' = tn
         /\ parsed' = Some(_parse_tracking_number(tn))
         /\ returned' = Some(url_format(_parse_tracking_number(tn)))
    /\ op' = "url"
    /\ calls' = [calls EXCEPT !.parse_tracking_number = @ + 1, !.url_format = @ + 1]
    /\ result' = Return
    /\ pc' = "done"
    /\ UNCHANGED <<given_info, tracking_info, response, data, info>>

\* is_delivered(tracking_number, tracking_info=None), lines 37-39
is_delivered ==
    /\ pc = "idle"
    /\ \E tn \in TrackedNumbers, ti \in {None} \cup { Some(g) : g \in GivenInfos } :
         /\ tracking_number' = tn
         /\ given_info' = ti
         /\ tracking_info' = ti
         /\ pc' = IF needs_track(ti) THEN "track" ELSE "is_delivered"
    /\ op' = "is_delivered"
    /\ UNCHANGED <<parsed, response, data, info, result, returned, calls>>

\* the caller invokes track(tracking_number)
call_track ==
    /\ pc = "idle"
    /\ \E tn \in TrackedNumbers : tracking_number' = tn
    /\ op' = "track"
    /\ pc' = "track"
    /\ UNCHANGED <<given_info, tracking_info, parsed, response, data, info, result,
                   returned, calls>>

\* track, lines 43-46 up to the call of _get_tracking_data.  Line 42 names
\* BaseInterface.require_valid_tracking_number in an expression statement:
\* nothing wraps track, which starts on any tracking number.
track ==
    /\ pc = "track"
    /\ info' = Some(TrackingInfo(tracking_number))
    /\ parsed' = Some(_parse_tracking_number(tracking_number))
    /\ calls' = [calls EXCEPT !.track = @ + 1, !.parse_tracking_number = @ + 1]
    /\ pc' = "get"
    /\ UNCHANGED <<op, tracking_number, given_info, tracking_info, response, data,
                   result, returned>>

\* _get_tracking_data, lines 67-81
_get_tracking_data ==
    /\ pc = "get"
    /\ \E resp \in Responses :
         /\ response' = Some(resp)
         /\ IF resp.raised # ""
            THEN /\ result' = Raise("TrackingApiFailure", <<resp.raised>>)
                 /\ pc' = "done"
            ELSE IF ~ok(resp)
            THEN /\ result' = Raise("TrackingApiFailure",
                                    <<"Amazon returned HTTP status: ",
                                      ToString(resp.status_code)>>)
                 /\ pc' = "done"
            ELSE IF ~has_marker(resp)
            THEN /\ result' = Raise("TrackingNumberFailure", <<"No shipment found">>)
                 /\ pc' = "done"
            ELSE /\ result' = result
                 /\ pc' = "parse"
    /\ calls' = [calls EXCEPT !.url_format = @ + 1, !.get = @ + 1]
    /\ UNCHANGED <<op, tracking_number, given_info, tracking_info, parsed, data, info,
                   returned>>

\* _parse_tracking_response, lines 85-119, the year being that of
\* datetime.datetime.now()
parse_tracking_response ==
    /\ pc = "parse"
    /\ \E year \in Years :
         LET r == _parse_tracking_response(response[1].body, year)
         IN  /\ data' = r.data
             /\ calls' = [calls EXCEPT !.parse_tracking_response = @ + 1,
                                       !.parse_timestamp = @ + r.timestamps]
             /\ IF r.exc = ""
                THEN /\ result' = result
                     /\ pc' = "events"
                ELSE /\ result' = Raise(r.exc, << >>)
                     /\ pc' = "done"
    /\ UNCHANGED <<op, tracking_number, given_info, tracking_info, parsed, response,
                   info, returned>>

\* one turn of the loop of lines 48-52
append_event ==
    /\ pc = "events"
    /\ Len(info[1].events) < Len(data[1].events)
    /\ LET event == data[1].events[Len(info[1].events) + 1]
       IN  info' = Some(create_event(info[1], event.location, event.timestamp,
                                     event.message))
    /\ calls' = [calls EXCEPT !.create_event = @ + 1]
    /\ UNCHANGED <<pc, op, tracking_number, given_info, tracking_info, parsed,
                   response, data, result, returned>>

\* lines 53-57, the loop being over; self.is_delivered(None, info) reads
\* info.status, and status is what the read gives
track_return ==
    /\ pc = "events"
    /\ Len(info[1].events) = Len(data[1].events)
    /\ \E status \in StatusValues :
         LET seen == [info[1] EXCEPT !.status = status]
         IN  IF status = None
             THEN /\ info' = Some(seen)
                  /\ result' = Raise("AttributeError", << >>)
                  /\ pc' = "done"
                  /\ UNCHANGED <<tracking_info, returned, calls>>
             ELSE LET d == status_is_delivered(status[1])
                      out == [seen EXCEPT !.is_delivered = Some(d),
                                          !.delivery_date =
                                              IF d THEN seen.last_update ELSE @]
                  IN  /\ info' = Some(out)
                      /\ calls' = [calls EXCEPT !.delivery_date_set =
                                                    IF d THEN @ + 1 ELSE @]
                      /\ IF op = "track"
                         THEN /\ returned' = Some(out)
                              /\ result' = Return
                              /\ pc' = "done"
                              /\ UNCHANGED tracking_info
                         ELSE /\ tracking_info' = Some(out)
                              /\ pc' = "is_delivered"
                              /\ UNCHANGED <<returned, result>>
    /\ UNCHANGED <<op, tracking_number, given_info, parsed, response, data>>

\* is_delivered, line 40
is_delivered_return ==
    /\ pc = "is_delivered"
    /\ IF tracking_info[1].status = None
       THEN /\ result' = Raise("AttributeError", << >>)
            /\ returned' = returned
       ELSE /\ result' = Return
            /\ returned' = Some(status_is_delivered(tracking_info[1].status[1]))
    /\ pc' = "done"
    /\ UNCHANGED <<op, tracking_number, given_info, tracking_info, parsed, response,
                   data, info, calls>>

Next ==
    \/ identify
    \/ url
    \/ is_delivered
    \/ call_track
    \/ track
    \/ _get_tracking_data
    \/ parse_tracking_response
    \/ append_event
    \/ track_return
    \/ is_delivered_return

Spec == Init /\ [][Next]_vars

----------------------------------------------------------------------------
(* Properties *)

Fetched == response # None
FetchRaised == Fetched /\ response[1].raised # ""
ErrorStatus == Fetched /\ response[1].raised = "" /\ response[1].status_code \in 400..599
SuccessStatus == Fetched /\ response[1].raised = "" /\ response[1].status_code \in 200..399
Raised(exc) == pc = "done" /\ result.kind = "raise" /\ result.exc = exc
Returned == pc = "done" /\ result.kind = "return"

\* C1: a GET that fails in transport, or answers with an error status, ends
\* the call with TrackingApiFailure (carrying the cause, or the status code),
\* whatever the body holds; the extractor has not run.
C1_FetchFailureIsApiFailure ==
    (FetchRaised \/ ErrorStatus) =>
        /\ Raised("TrackingApiFailure")
        /\ FetchRaised => result.arg = <<response[1].raised>>
        /\ ErrorStatus =>
             result.arg[Len(result.arg)] = ToString(response[1].status_code)
        /\ calls.parse_tracking_response = 0
        /\ data = None

\* an answer 503 whose body lacks the marker ended as TrackingApiFailure
C1_Witness ==
    /\ ErrorStatus
    /\ response[1].status_code = 503
    /\ ~response[1].body.marker
    /\ Raised("TrackingApiFailure")

\* C2: a success status with a body without the marker text ends the call
\* with TrackingNumberFailure: no extractor run, no timestamp resolved, no
\* event appended; and TrackingNumberFailure only follows a completed fetch
\* with a success status.
C2_UnmarkedBodyIsNumberFailure ==
    /\ (SuccessStatus /\ ~response[1].body.marker) =>
          /\ Raised("TrackingNumberFailure")
          /\ calls.parse_tracking_response = 0
          /\ calls.parse_timestamp = 0
          /\ calls.create_event = 0
          /\ data = None
          /\ info[1].events = << >>
    /\ result.exc = "TrackingNumberFailure" => (SuccessStatus /\ calls.get = 1)

\* a page with two event rows but no marker ended as TrackingNumberFailure
C2_Witness ==
    /\ SuccessStatus
    /\ ~response[1].body.marker
    /\ response[1].body.containers # << >>
    /\ Raised("TrackingNumberFailure")

\* C3: track returning on a page whose primary status is "Delivered" and
\* that has an event returns is_delivered = true and delivery_date = the
\* timestamp of the first event.
C3_DeliveredPageIsDelivered ==
    (/\ op = "track"
     /\ Returned
     /\ _find(response[1].body.primary_status) = <<"Delivered">>
     /\ Len(data[1].events) >= 1) =>
        /\ returned[1].is_delivered = Some(TRUE)
        /\ returned[1].delivery_date = Some(data[1].events[1].timestamp)

\* the same letter, in either case
SameLetter(a, b) ==
    a = b \/ \E i \in 1..Len(UpperCase) : {a, b} = {UpperCase[i], LowerCase[i]}

SpellsDelivered(s) ==
    /\ Len(s) = Len(delivered)
    /\ \A i \in 1..Len(s) : SameLetter(s[i], delivered[i])

\* C4: a TrackingInfo returned by track is delivered exactly if its status
\* spells "delivered" in any case, and track has set its delivery_date
\* exactly if it is delivered.
C4_DeliveredIffStatus ==
    (op = "track" /\ Returned) =>
        LET ti == returned[1]
        IN  /\ ti.is_delivered = Some(SpellsDelivered(ti.status[1]))
            /\ calls.delivery_date_set = (IF ti.is_delivered = Some(TRUE) THEN 1 ELSE 0)
            /\ ti.is_delivered = Some(FALSE) => ti.delivery_date = None
            /\ ti.is_delivered = Some(TRUE) => ti.delivery_date = ti.last_update

\* track returned a delivered record, its status in capitals, with events
C4_Witness ==
    /\ op = "track"
    /\ Returned
    /\ returned[1].status = Some(<<"D", "E", "L", "I", "V", "E", "R", "E", "D">>)
    /\ returned[1].is_delivered = Some(TRUE)
    /\ returned[1].events # << >>
    /\ returned[1].delivery_date # None

\* C5: on a tracking number that identify refuses, track decomposes
\* nothing, builds no URL and issues no GET.
C5_MalformedNumberRejected ==
    (calls.track >= 1 /\ ~identify_value(tracking_number)) =>
        /\ calls.parse_tracking_number = 0
        /\ calls.url_format = 0
        /\ calls.get = 0

\* s begins with 3 digits, '-', 7 digits, '-', 7 digits
BeginsWithOrderId(s) ==
    /\ Len(s) >= 19
    /\ \A i \in 1..19 : IF i \in {4, 12} THEN s[i] = "-" ELSE s[i] \in Digits

\* s is such an order id, alone or followed by ':' and a word
IsOrderIdWithToken(s) ==
    /\ BeginsWithOrderId(s)
    /\ \/ Len(s) = 19
       \/ /\ Len(s) >= 21
          /\ s[20] = ":"
          /\ \A i \in 21..Len(s) : s[i] \in Digits \cup Letters \cup {"_"}

\* C6 as stated: identify returns true on the strings that are an order id
\* with an optional ':' token and false on all others, prefix matches
\* followed by more characters included.
C6_IdentifyWholeString ==
    (op = "identify" /\ pc = "done") =>
        /\ result.kind = "return"
        /\ returned[1] = IsOrderIdWithToken(tracking_number)

\* C6 as amended: identify returns true exactly on the strings that begin
\* with an order id, whatever follows it, and false on all others, those
\* with characters in front of the order id included; it never fails.
C6_IdentifyPrefix ==
    (op = "identify" /\ pc = "done") =>
        /\ result.kind = "return"
        /\ returned[1] = BeginsWithOrderId(tracking_number)

\* identify returned true on an order id followed by characters that the
\* pattern does not allow
C6_Witness ==
    /\ op = "identify"
    /\ pc = "done"
    /\ returned = Some(TRUE)
    /\ Len(tracking_number) > 19
    /\ ~IsOrderIdWithToken(tracking_number)

\* the sub-rows that are events: neither they nor their container carry an
\* ignored class
EventRows(body) ==
    { p \in UNION { {i} \X (1..Len(body.containers[i].rows)) :
                      i \in 1..Len(body.containers) } :
        /\ body.containers[p[1]].class \cap _IGNORE_TAG_CLASSES = {}
        /\ body.containers[p[1]].rows[p[2]].class \cap _IGNORE_TAG_CLASSES = {} }

Before(p, q) == p[1] < q[1] \/ (p[1] = q[1] /\ p[2] < q[2])

\* place of an event row in document order
Place(body, p) == 1 + Cardinality({ q \in EventRows(body) : Before(q, p) })

\* C7: the extractor, once run, has yielded one event per event row, in
\* document order, and track returning has appended exactly these, in that
\* order, one append each.
C7_EventsInDocumentOrder ==
    (calls.parse_tracking_response = 1) =>
        LET body == response[1].body
        IN  /\ data # None
            /\ Len(data[1].events) = Cardinality(EventRows(body))
            /\ \A p \in EventRows(body) :
                 data[1].events[Place(body, p)].message
                    = _find(body.containers[p[1]].rows[p[2]].message)
            /\ (op = "track" /\ Returned) =>
                 /\ calls.create_event = Len(data[1].events)
                 /\ Len(returned[1].events) = Len(data[1].events)
                 /\ \A k \in 1..Len(data[1].events) :
                      /\ returned[1].events[k].detail = data[1].events[k].message
                      /\ returned[1].events[k].timestamp = data[1].events[k].timestamp
                      /\ returned[1].events[k].location = data[1].events[k].location

\* C8: GETs per public operation: one for track; one for is_delivered
\* without a TrackingInfo, through one track call; none for is_delivered
\* with a TrackingInfo; none for url; never more than one.
C8_ExpectedGets ==
    CASE op = "track" -> 1
      [] op = "is_delivered" -> IF given_info = None THEN 1 ELSE 0
      [] OTHER -> 0

C8_OneGetPerTrack ==
    /\ calls.get <= C8_ExpectedGets
    /\ calls.track <= C8_ExpectedGets
    /\ pc = "done" => (calls.get = C8_ExpectedGets /\ calls.track = C8_ExpectedGets)

\* is_delivered without a TrackingInfo returned after one track and one GET
C8_Witness ==
    /\ op = "is_delivered"
    /\ given_info = None
    /\ Returned
    /\ calls.get = 1
    /\ calls.track = 1

\* C9: the timestamp resolver does not raise to its caller when both
\* formats fail: no call ends with the resolver's exception.
C9_ResolverDoesNotRaise ==
    ~(calls.parse_timestamp >= 1 /\ Raised("TypeError"))

ScalarFields ==
    {"id", "primary_status", "secondary_status", "milestone_message",
     "exception_source", "exception_message"}

\* C10: the extractor, once run, has completed whichever scalar fields the
\* page lacks, each missing field being the empty string (a timestamp that
\* does not resolve is the matter of C9).
C10_MissingFieldsAreEmpty ==
    (calls.parse_tracking_response = 1 /\ ~Raised("TypeError")) =>
        /\ data # None
        /\ \A f \in ScalarFields :
             response[1].body[f] = None => data[1][f] = << >>

====
